---- MODULE Spec2Model ----
(***************************************************************************)
(* Reorg detector of the external node                                     *)
(* (core/lib/zksync_core/src/reorg_detector/mod.rs).                       *)
(*                                                                         *)
(* The detector is one task: `run` -> `run_inner` -> `check_consistency`   *)
(* -> `root_hashes_match` / `miniblock_hashes_match` / `detect_reorg`.     *)
(* Every `.await` is a suspension point; between two suspension points the *)
(* block store, the main node and the stop signal may change.  One action  *)
(* of the model is the code from one suspension point to the next.         *)
(*                                                                         *)
(* Heights are 1..MaxBatch / 1..MaxBlock; 0 stands for `None`.             *)
(***************************************************************************)
EXTENDS Integers, Sequences, FiniteSets, TLC

\* ------------------------------------------------------------------------
\* Bounds of the model
\* ------------------------------------------------------------------------
MaxBatch == 3
MaxBlock == 2

\* ------------------------------------------------------------------------
\* Values
\* ------------------------------------------------------------------------
NoNumber == 0
NoHash == 0

\* H256 values: the hash of height n on the local history and on a history
\* that forked away from it.  Equality is all the code uses.
HashA(n) == 2 * n
HashB(n) == 2 * n + 1

Min(a, b) == IF a <= b THEN a ELSE b

\* Result<_, Error> values; `cause` is the RpcError variant or the anyhow
\* context of a Storage error.
OkUnit == [kind |-> "Ok", val |-> TRUE, arg |-> 0, cause |-> ""]
OkBool(b) == [kind |-> "Ok", val |-> b, arg |-> 0, cause |-> ""]
Err(kind, arg, cause) == [kind |-> kind, val |-> FALSE, arg |-> arg, cause |-> cause]
NoResult == [kind |-> "None", val |-> FALSE, arg |-> 0, cause |-> ""]

RpcFaults == {"Transport", "RequestTimeout", "Other"}
RpcOutcomes == {"ok"} \cup RpcFaults

\* Error::is_transient
is_transient_only_no_remote(err) == err.kind = "NoRemoteL1Batch"
is_transient_any_rpc(err) == err.kind = "NoRemoteL1Batch" \/ err.kind = "Rpc"
is_transient(err) ==
    CASE err.kind = "NoRemoteL1Batch" -> TRUE
      [] err.kind = "Rpc" -> err.cause \in {"Transport", "RequestTimeout"}
      [] OTHER -> FALSE

\* HandleReorgDetectorEvent calls, as values
Ev(kind, a, b) == [kind |-> kind, a |-> a, b |-> b]

VARIABLES
    storage,        \* block store: earliest / last L1 batch with metadata, sealed miniblock
    main_node,      \* main node: sealed tips and where its history forks from the local one
    stop_receiver,  \* value of the stop signal
    pc,             \* suspension point the detector is at
    loc,            \* local variables of run_inner, check_consistency, the
                    \* hashes_match call in progress and binary_search_with,
                    \* each while it is live
    err,            \* Err(_) that run_inner returned to run
    result,         \* return value of run
    obs             \* what the event handler and an observer of the task have seen

vars == <<storage, main_node, stop_receiver, pc, loc, err, result, obs>>

NoLocals ==
    [caller |-> "", number |-> 0, local_hash |-> NoHash, earliest_l1_batch |-> 0,
     local_l1_batch |-> 0, local_miniblock |-> 0,
     remote_l1_batch |-> 0, remote_miniblock |-> 0,
     checked_l1_batch |-> 0, checked_miniblock |-> 0,
     root_hashes_match |-> FALSE, diverged_l1_batch |-> 0,
     left |-> 0, right |-> 0, connection |-> FALSE]

\* n_initialize, n_shutdown: calls of initialize / start_shutting_down;
\* early_events: calls of the event handler before the first initialize;
\* late_events: calls of the event handler after a start_shutting_down;
\* round_events: update_correct_block / report_divergence calls of the latest
\*   check_consistency round, until the task wakes from the sleep after it;
\* round_probes: the heights the localizer probed in that round and what it
\*   found there: "equal", "differ", "missing" (no remote root hash), "error";
\* entry_round: a check_consistency round started in this run_inner entry;
\* earliest_ok: root_hashes_match(earliest_l1_batch) returned Ok(true) in
\*   this run_inner entry;
\* stray_events: update_correct_block / report_divergence calls made outside
\*   of a check_consistency round;
\* round_queried: the main node was called in that round;
\* tracking: the observer compares successive update_correct_block calls,
\*   until a tip of the store or of the main node goes back or the task
\*   calls report_divergence;
\* progress: then, the miniblock and L1 batch of the latest
\*   update_correct_block call (0: no such call);
\* round_advance: then, by how much the update_correct_block call of that
\*   round is ahead of `progress`;
\* env_changed: store or main node changed during that round;
\* stop_in_sleep: the stop signal was set while the detector slept;
\* rounds_after_stop: rounds started after the stop signal was set.
NoObs ==
    [n_initialize |-> 0, n_shutdown |-> 0, early_events |-> 0, late_events |-> 0,
     round_events |-> <<>>, round_probes |-> <<>>, entry_round |-> FALSE,
     earliest_ok |-> FALSE,
     stray_events |-> 0, round_queried |-> FALSE,
     tracking |-> FALSE, progress |-> [miniblock |-> 0, l1_batch |-> 0],
     round_advance |-> <<>>,
     env_changed |-> FALSE,
     stop_in_sleep |-> FALSE, rounds_after_stop |-> 0]

Emit(o, at, kind, a, b) ==
    [o EXCEPT !.n_initialize = @ + (IF kind = "initialize" THEN 1 ELSE 0),
              !.n_shutdown = @ + (IF kind = "start_shutting_down" THEN 1 ELSE 0),
              !.early_events = @ + (IF kind # "initialize" /\ o.n_initialize = 0
                                    THEN 1 ELSE 0),
              !.late_events = @ + (IF o.n_shutdown > 0 THEN 1 ELSE 0),
              !.stray_events = @ + (IF at # "round" /\ kind \in {"update_correct_block",
                                                                 "report_divergence"}
                                    THEN 1 ELSE 0),
              !.round_events = IF kind \in {"update_correct_block", "report_divergence"}
                               THEN Append(@, Ev(kind, a, b)) ELSE @,
              !.tracking = @ /\ kind # "report_divergence",
              !.progress = IF o.tracking /\ kind = "update_correct_block"
                           THEN [miniblock |-> a, l1_batch |-> b]
                           ELSE IF kind = "report_divergence"
                           THEN [miniblock |-> 0, l1_batch |-> 0] ELSE @,
              !.round_advance = IF /\ o.tracking /\ kind = "update_correct_block"
                                   /\ o.progress.l1_batch # 0
                                THEN <<[miniblock |-> a - o.progress.miniblock,
                                        l1_batch |-> b - o.progress.l1_batch]>>
                                ELSE @]

\* the observations of a round are dropped when the task moves on
Forget(o) == [o EXCEPT !.round_events = <<>>, !.round_probes = <<>>,
                       !.round_queried = FALSE, !.round_advance = <<>>,
                       !.env_changed = FALSE]

\* a call of the main node was made
Queried(o) == [o EXCEPT !.round_queried = TRUE]

\* what a probe of the localizer found
Verdict(res) ==
    CASE res.kind = "Ok" /\ res.val -> "equal"
      [] res.kind = "Ok" /\ ~res.val -> "differ"
      [] res.kind = "NoRemoteL1Batch" -> "missing"
      [] OTHER -> "error"
Probed(o, n, res) ==
    [o EXCEPT !.round_probes = Append(@, [number |-> n, verdict |-> Verdict(res)])]

\* ------------------------------------------------------------------------
\* Block store queries (blocks_dal)
\* ------------------------------------------------------------------------
get_earliest_l1_batch_number_with_metadata == storage.earliest
get_last_l1_batch_number_with_metadata == storage.last
get_sealed_miniblock_number == storage.miniblock

get_l1_batch_state_root(n) ==
    IF storage.earliest # NoNumber /\ storage.earliest <= n /\ n <= storage.last
    THEN HashA(n) ELSE NoHash

get_miniblock_header(n) ==
    IF 1 <= n /\ n <= storage.miniblock THEN HashA(n) ELSE NoHash

\* ------------------------------------------------------------------------
\* Main node queries (MainNodeClient)
\* ------------------------------------------------------------------------
sealed_l1_batch_number == main_node.l1_batch
sealed_miniblock_number == main_node.miniblock

\* get_l1_batch_details, line 118: the details of a sealed batch, whose
\* base.root_hash is None until the main node has computed it
NoDetails == [sealed |-> FALSE, root_hash |-> NoHash]
get_l1_batch_details(n) ==
    IF 1 <= n /\ n <= main_node.l1_batch
    THEN [sealed |-> TRUE,
          root_hash |-> IF n > main_node.hashed_l1_batch THEN NoHash
                        ELSE IF n < main_node.batch_fork THEN HashA(n) ELSE HashB(n)]
    ELSE NoDetails

\* lines 114-123: `.and_then(|batch| batch.base.root_hash)`
l1_batch_root_hash(n) ==
    IF get_l1_batch_details(n) = NoDetails THEN NoHash
    ELSE get_l1_batch_details(n).root_hash

miniblock_hash(n) ==
    IF 1 <= n /\ n <= main_node.miniblock
    THEN (IF n < main_node.miniblock_fork THEN HashA(n) ELSE HashB(n))
    ELSE NoHash

\* ------------------------------------------------------------------------
\* Positions
\* ------------------------------------------------------------------------
RoundPcs == {"cc_access", "cc_local_batch", "cc_local_miniblock", "cc_remote_batch",
             "cc_remote_miniblock", "mhm_access", "mhm_local", "mhm_remote",
             "cc_earliest_access", "cc_earliest", "bs_loop"}
RhmPcs == {"rhm_access", "rhm_local", "rhm_remote"}
\* the task awaits a connection of the pool (lines 229, 267, 287 and 317,
\* and in wait_for_l1_batch_with_metadata)
AccessPcs == {"wait_access", "cc_access", "cc_earliest_access", "mhm_access", "rhm_access"}
SleepPcs == {"wait_sleep", "round_sleep", "retry_sleep"}
\* positions between two suspension points: the task runs on from them
\* without yielding
RunningPcs == {"run_loop", "inner_loop", "bs_loop", "run_match"}

\* the detector is inside check_consistency
InRound == pc \in RoundPcs \/ (pc \in RhmPcs /\ loc.caller # "earliest")

StorageStates ==
    {s \in [earliest : 0..MaxBatch, last : 0..MaxBatch, miniblock : 0..MaxBlock] :
        \/ s.earliest = NoNumber /\ s.last = NoNumber
        \/ 1 <= s.earliest /\ s.earliest <= s.last}

\* hashed_l1_batch: the last sealed L1 batch whose root hash the main node
\* has computed (0: none).
\* batch_fork / miniblock_fork: the first height at which the main node's
\* history differs from the local one; tip + 1 while no such height is sealed
MainNodeStates ==
    {m \in [l1_batch : 1..MaxBatch, hashed_l1_batch : 0..MaxBatch,
            miniblock : 1..MaxBlock,
            batch_fork : 1..(MaxBatch + 1), miniblock_fork : 1..(MaxBlock + 1)] :
        /\ m.hashed_l1_batch <= m.l1_batch
        /\ m.batch_fork <= m.hashed_l1_batch + 1
        /\ m.miniblock_fork <= m.miniblock + 1}

Init ==
    /\ storage \in StorageStates
    /\ main_node \in MainNodeStates
    /\ stop_receiver = FALSE
    /\ pc = "start"
    /\ loc = NoLocals
    /\ err = NoResult
    /\ result = NoResult
    /\ obs = NoObs

\* ------------------------------------------------------------------------
\* Pure parts of the code
\* ------------------------------------------------------------------------

\* root_hashes_match, after both hashes were read
root_hashes_match_negated(local, remote) ==
    IF remote = NoHash THEN Err("NoRemoteL1Batch", 0, "") ELSE OkBool(remote # local)
root_hashes_match_result(local, remote) ==
    IF remote = NoHash THEN Err("NoRemoteL1Batch", 0, "") ELSE OkBool(remote = local)

\* miniblock_hashes_match, after both hashes were read
miniblock_hashes_match_result_strict(local, remote) == OkBool(remote = local)
miniblock_hashes_match_result(local, remote) ==
    IF remote = NoHash THEN OkBool(TRUE) ELSE OkBool(remote = local)

\* checked_l1_batch / checked_miniblock of check_consistency
checked_minus_lag(local, remote) ==
    IF local <= remote THEN local - (remote - local) ELSE remote - (local - remote)
checked_local(local, remote) == local
checked_max(local, remote) == IF local >= remote THEN local ELSE remote
checked(local, remote) == Min(local, remote)

\* diverged_l1_batch of check_consistency
diverged_always_next(checked_l1_batch, root_match) == checked_l1_batch + 1
diverged_never_next(checked_l1_batch, root_match) == checked_l1_batch
diverged(checked_l1_batch, root_match) ==
    checked_l1_batch + (IF root_match THEN 1 ELSE 0)

\* the match of run_inner on the result of root_hashes_match(earliest_l1_batch),
\* for a result other than Ok(true)
earliest_error_retries_truncated(res, earliest) ==
    CASE res.kind = "Ok" -> Err("EarliestHashMismatch", earliest, "")
      [] OTHER -> res
earliest_error(res, earliest) ==
    CASE res.kind = "Ok" -> Err("EarliestHashMismatch", earliest, "")
      [] res.kind = "NoRemoteL1Batch" -> Err("EarliestL1BatchTruncated", earliest, "")
      [] OTHER -> res

\* the closure detect_reorg hands to binary_search_with
detect_reorg_probe_propagates(res) == res
detect_reorg_probe(res) ==
    IF res.kind = "NoRemoteL1Batch" THEN OkBool(TRUE) ELSE res

\* the bounds detect_reorg hands to binary_search_with
detect_reorg_bounds_swapped(known_valid_l1_batch, diverged_l1_batch) ==
    [left |-> diverged_l1_batch, right |-> known_valid_l1_batch]
detect_reorg_bounds(known_valid_l1_batch, diverged_l1_batch) ==
    [left |-> known_valid_l1_batch, right |-> diverged_l1_batch]

\* check_consistency, line 279
reorg_detected_at_diverged(last_correct_l1_batch) ==
    Err("ReorgDetected", last_correct_l1_batch + 1, "")
reorg_detected(last_correct_l1_batch) ==
    Err("ReorgDetected", last_correct_l1_batch, "")

\* binary_search_with: the probed height
middle(l, r) == (l + r) \div 2

\* ------------------------------------------------------------------------
\* The detector
\* ------------------------------------------------------------------------

\* self.pool.access_storage(), lines 229, 267, 287 and 317: the task holds a
\* connection of the pool in its local `storage`
access_storage(l) == [l EXCEPT !.connection = TRUE]

drop_forgotten(l) == l
\* drop(storage), lines 241, 274, 297 and 324
drop(l) == [l EXCEPT !.connection = FALSE]

\* `?` / `return Err(..)` up to the match in run; the locals of the frames
\* left, a held connection among them, are dropped
Fail(e) ==
    /\ pc' = "run_match"
    /\ err' = e
    /\ loc' = NoLocals

\* run, line 363
run_start ==
    /\ pc = "start"
    /\ obs' = Emit(obs, "run", "initialize", 0, 0)
    /\ pc' = "run_loop"
    /\ UNCHANGED <<storage, main_node, stop_receiver, loc, err, result>>

run_loop_ignores_stop ==
    /\ pc = "run_loop"
    /\ obs' = [obs EXCEPT !.entry_round = FALSE, !.earliest_ok = FALSE]
    /\ pc' = "wait_access"
    /\ UNCHANGED <<storage, main_node, stop_receiver, loc, err, result>>

\* run, the `while` test of line 364, the exit of lines 375-377 and the call
\* of run_inner
run_loop ==
    /\ pc = "run_loop"
    /\ IF stop_receiver
       THEN /\ obs' = Emit([obs EXCEPT !.earliest_ok = FALSE],
                            "run", "start_shutting_down", 0, 0)
            /\ result' = OkUnit
            /\ pc' = "done"
       ELSE /\ obs' = [obs EXCEPT !.entry_round = FALSE, !.earliest_ok = FALSE]
            /\ pc' = "wait_access"
            /\ UNCHANGED result
    /\ UNCHANGED <<storage, main_node, stop_receiver, loc, err>>

\* wait_for_l1_batch_with_metadata: the loop test and the wait for a
\* connection of the pool
wait_for_l1_batch_with_metadata_access_storage ==
    /\ pc = "wait_access"
    /\ IF stop_receiver
       THEN /\ pc' = "run_loop"
            /\ UNCHANGED <<loc, err>>
       ELSE \E fails \in BOOLEAN :
              IF fails THEN Fail(Err("Storage", 0, "Sqlx"))
              ELSE /\ loc' = access_storage(loc)
                   /\ pc' = "wait_batch"
                   /\ UNCHANGED err
    /\ UNCHANGED <<storage, main_node, stop_receiver, result, obs>>

\* one query of wait_for_l1_batch_with_metadata and, when it returns a
\* batch, run_inner up to the call of root_hashes_match
wait_for_l1_batch_with_metadata ==
    /\ pc = "wait_batch"
    /\ \E fails \in BOOLEAN :
         IF fails THEN Fail(Err("Storage", 0, "Sqlx"))
         ELSE IF get_earliest_l1_batch_number_with_metadata = NoNumber
         THEN /\ pc' = "wait_sleep"
              /\ loc' = drop(loc)
              /\ UNCHANGED err
         ELSE /\ loc' = drop([loc EXCEPT
                           !.earliest_l1_batch = get_earliest_l1_batch_number_with_metadata,
                           !.caller = "earliest",
                           !.number = get_earliest_l1_batch_number_with_metadata])
              /\ pc' = "rhm_access"
              /\ UNCHANGED err
    /\ UNCHANGED <<storage, main_node, stop_receiver, result, obs>>

\* the poll interval of wait_for_l1_batch_with_metadata elapses or the stop
\* signal changes
wait_sleep ==
    /\ pc = "wait_sleep"
    /\ pc' = "wait_access"
    /\ UNCHANGED <<storage, main_node, stop_receiver, loc, err, result, obs>>

\* root_hashes_match, line 317
root_hashes_match_access_storage ==
    /\ pc = "rhm_access"
    /\ \E fails \in BOOLEAN :
         IF fails
         THEN /\ Fail(Err("Storage", 0, "Sqlx"))
              /\ obs' = IF loc.caller = "probe"
                        THEN Probed(obs, loc.number, Err("Storage", 0, "Sqlx"))
                        ELSE obs
         ELSE /\ loc' = access_storage(loc)
              /\ pc' = "rhm_local"
              /\ UNCHANGED <<err, obs>>
    /\ UNCHANGED <<storage, main_node, stop_receiver, result>>

\* root_hashes_match, lines 318-324
root_hashes_match_local ==
    /\ pc = "rhm_local"
    /\ \E fails \in BOOLEAN :
         LET failure == IF fails THEN Err("Storage", 0, "Sqlx")
                        ELSE Err("Storage", 0, "Root hash does not exist")
         IN IF fails \/ get_l1_batch_state_root(loc.number) = NoHash
            THEN /\ Fail(failure)
                 /\ obs' = IF loc.caller = "probe" THEN Probed(obs, loc.number, failure)
                           ELSE obs
            ELSE /\ loc' = drop([loc EXCEPT
                                    !.local_hash = get_l1_batch_state_root(loc.number)])
                 /\ pc' = "rhm_remote"
                 /\ UNCHANGED <<err, obs>>
    /\ UNCHANGED <<storage, main_node, stop_receiver, result>>

\* run_inner, lines 389-397: the result of root_hashes_match(earliest_l1_batch)
run_inner_match(res) ==
    IF res.kind = "Ok" /\ res.val
    THEN /\ pc' = "inner_loop"
         /\ loc' = NoLocals
         /\ obs' = [obs EXCEPT !.earliest_ok = TRUE]
         /\ UNCHANGED err
    ELSE /\ Fail(earliest_error(res, loc.earliest_l1_batch))
         /\ UNCHANGED obs

\* check_consistency, lines 249-250: the result of
\* root_hashes_match(checked_l1_batch)
check_consistency_root(res) ==
    /\ obs' = Queried(obs)
    /\ IF res.kind # "Ok"
       THEN Fail(res)
       ELSE /\ loc' = [loc EXCEPT !.root_hashes_match = res.val,
                                  !.caller = "",
                                  !.local_hash = NoHash,
                                  !.number = loc.checked_miniblock]
            /\ pc' = "mhm_access"
            /\ UNCHANGED err

\* binary_search_with: the result of a probe
binary_search_probed(res) ==
    /\ obs' = Probed(Queried(obs), loc.number, res)
    /\ IF detect_reorg_probe(res).kind # "Ok"
       THEN Fail(detect_reorg_probe(res))
       ELSE /\ loc' = [loc EXCEPT
                         !.left = IF detect_reorg_probe(res).val THEN loc.number ELSE @,
                         !.right = IF detect_reorg_probe(res).val THEN @ ELSE loc.number,
                         !.caller = "", !.local_hash = NoHash, !.number = 0]
            /\ pc' = "bs_loop"
            /\ UNCHANGED err

\* root_hashes_match, lines 326-337, and the return to its caller
root_hashes_match_remote ==
    /\ pc = "rhm_remote"
    /\ \E outcome \in RpcOutcomes :
         LET res == IF outcome # "ok" THEN Err("Rpc", 0, outcome)
                    ELSE root_hashes_match_result(loc.local_hash,
                                                  l1_batch_root_hash(loc.number))
         IN CASE loc.caller = "earliest" -> run_inner_match(res)
              [] loc.caller = "checked" -> check_consistency_root(res)
              [] loc.caller = "probe" -> binary_search_probed(res)
    /\ UNCHANGED <<storage, main_node, stop_receiver, result>>

\* run_inner, the `while` test of line 397 and the call of check_consistency
run_inner_loop ==
    /\ pc = "inner_loop"
    /\ IF stop_receiver
       THEN /\ pc' = "run_loop"
            /\ UNCHANGED obs
       ELSE /\ pc' = "cc_access"
            /\ obs' = [obs EXCEPT !.round_events = <<>>, !.round_probes = <<>>,
                                  !.round_queried = FALSE,
                                  !.entry_round = TRUE,
                                  !.env_changed = FALSE,
                                  !.rounds_after_stop =
                                      @ + (IF stop_receiver THEN 1 ELSE 0)]
    /\ UNCHANGED <<storage, main_node, stop_receiver, loc, err, result>>

check_consistency_local_batch_continues ==
    /\ pc = "cc_local_batch"
    /\ \E fails \in BOOLEAN :
         IF fails THEN Fail(Err("Storage", 0, "Sqlx"))
         ELSE /\ loc' = [loc EXCEPT
                                !.local_l1_batch = get_last_l1_batch_number_with_metadata]
              /\ pc' = "cc_local_miniblock"
              /\ UNCHANGED err
    /\ UNCHANGED <<storage, main_node, stop_receiver, result, obs>>

\* check_consistency, line 229
check_consistency_access_storage ==
    /\ pc = "cc_access"
    /\ \E fails \in BOOLEAN :
         IF fails THEN Fail(Err("Storage", 0, "Sqlx"))
         ELSE /\ loc' = access_storage(loc)
              /\ pc' = "cc_local_batch"
              /\ UNCHANGED err
    /\ UNCHANGED <<storage, main_node, stop_receiver, result, obs>>

\* check_consistency, lines 230-236
check_consistency_local_batch ==
    /\ pc = "cc_local_batch"
    /\ \E fails \in BOOLEAN :
         IF fails THEN Fail(Err("Storage", 0, "Sqlx"))
         ELSE IF get_last_l1_batch_number_with_metadata = NoNumber
         THEN /\ pc' = "round_sleep"
              /\ loc' = NoLocals
              /\ UNCHANGED err
         ELSE /\ loc' = [loc EXCEPT
                                !.local_l1_batch = get_last_l1_batch_number_with_metadata]
              /\ pc' = "cc_local_miniblock"
              /\ UNCHANGED err
    /\ UNCHANGED <<storage, main_node, stop_receiver, result, obs>>

\* check_consistency, lines 237-241
check_consistency_local_miniblock ==
    /\ pc = "cc_local_miniblock"
    /\ \E fails \in BOOLEAN :
         IF fails THEN Fail(Err("Storage", 0, "Sqlx"))
         ELSE IF get_sealed_miniblock_number = NoNumber
         THEN /\ pc' = "round_sleep"
              /\ loc' = NoLocals
              /\ UNCHANGED err
         ELSE /\ loc' = drop([loc EXCEPT !.local_miniblock = get_sealed_miniblock_number])
              /\ pc' = "cc_remote_batch"
              /\ UNCHANGED err
    /\ UNCHANGED <<storage, main_node, stop_receiver, result, obs>>

\* check_consistency, line 243
check_consistency_remote_batch ==
    /\ pc = "cc_remote_batch"
    /\ \E outcome \in RpcOutcomes :
         IF outcome # "ok"
         THEN /\ Fail(Err("Rpc", 0, outcome))
              /\ obs' = Queried(obs)
         ELSE /\ loc' = [loc EXCEPT !.remote_l1_batch = sealed_l1_batch_number]
              /\ pc' = "cc_remote_miniblock"
              /\ UNCHANGED err
              /\ obs' = Queried(obs)
    /\ UNCHANGED <<storage, main_node, stop_receiver, result>>

\* check_consistency, lines 244-249, up to the call of root_hashes_match
check_consistency_remote_miniblock ==
    /\ pc = "cc_remote_miniblock"
    /\ \E outcome \in RpcOutcomes :
         IF outcome # "ok"
         THEN /\ Fail(Err("Rpc", 0, outcome))
              /\ obs' = Queried(obs)
         ELSE /\ obs' = Queried(obs)
              /\ loc' = [loc EXCEPT
                           !.checked_l1_batch = checked(loc.local_l1_batch, loc.remote_l1_batch),
                           !.checked_miniblock = checked(loc.local_miniblock,
                                                         sealed_miniblock_number),
                           !.local_l1_batch = 0, !.local_miniblock = 0,
                           !.remote_miniblock = sealed_miniblock_number,
                           !.caller = "checked",
                           !.number = checked(loc.local_l1_batch, loc.remote_l1_batch)]
              /\ pc' = "rhm_access"
              /\ UNCHANGED err
    /\ UNCHANGED <<storage, main_node, stop_receiver, result>>

\* miniblock_hashes_match, line 287
miniblock_hashes_match_access_storage ==
    /\ pc = "mhm_access"
    /\ \E fails \in BOOLEAN :
         IF fails THEN Fail(Err("Storage", 0, "Sqlx"))
         ELSE /\ loc' = access_storage(loc)
              /\ pc' = "mhm_local"
              /\ UNCHANGED err
    /\ UNCHANGED <<storage, main_node, stop_receiver, result, obs>>

\* miniblock_hashes_match, lines 288-297
miniblock_hashes_match_local ==
    /\ pc = "mhm_local"
    /\ \E fails \in BOOLEAN :
         IF fails THEN Fail(Err("Storage", 0, "Sqlx"))
         ELSE IF get_miniblock_header(loc.number) = NoHash
         THEN Fail(Err("Storage", 0, "Header does not exist"))
         ELSE /\ loc' = drop([loc EXCEPT
                                 !.local_hash = get_miniblock_header(loc.number)])
              /\ pc' = "mhm_remote"
              /\ UNCHANGED err
    /\ UNCHANGED <<storage, main_node, stop_receiver, result, obs>>

miniblock_hashes_match_remote_unreported ==
    /\ pc = "mhm_remote"
    /\ \E outcome \in RpcOutcomes :
         IF outcome # "ok"
         THEN /\ Fail(Err("Rpc", 0, outcome))
              /\ obs' = Queried(obs)
         ELSE LET miniblock_match ==
                      miniblock_hashes_match_result(loc.local_hash,
                                                    miniblock_hash(loc.number)).val
              IN IF loc.root_hashes_match /\ miniblock_match
                 THEN /\ obs' = Emit(Queried(obs), "round", "update_correct_block",
                                     loc.checked_miniblock, loc.checked_l1_batch)
                      /\ pc' = "round_sleep"
                      /\ loc' = NoLocals
                      /\ UNCHANGED err
                 ELSE /\ obs' = Queried(obs)
                      /\ loc' = [NoLocals EXCEPT
                                   !.remote_l1_batch = loc.remote_l1_batch,
                                   !.remote_miniblock = loc.remote_miniblock,
                                   !.diverged_l1_batch =
                                       diverged(loc.checked_l1_batch, loc.root_hashes_match)]
                      /\ pc' = "cc_earliest_access"
                      /\ UNCHANGED err
    /\ UNCHANGED <<storage, main_node, stop_receiver, result>>

\* miniblock_hashes_match, lines 299-312, and check_consistency, lines 250-264
miniblock_hashes_match_remote ==
    /\ pc = "mhm_remote"
    /\ \E outcome \in RpcOutcomes :
         IF outcome # "ok"
         THEN /\ Fail(Err("Rpc", 0, outcome))
              /\ obs' = Queried(obs)
         ELSE LET miniblock_match ==
                      miniblock_hashes_match_result(loc.local_hash,
                                                    miniblock_hash(loc.number)).val
              IN IF loc.root_hashes_match /\ miniblock_match
                 THEN /\ obs' = Emit(Queried(obs), "round", "update_correct_block",
                                     loc.checked_miniblock, loc.checked_l1_batch)
                      /\ pc' = "round_sleep"
                      /\ loc' = NoLocals
                      /\ UNCHANGED err
                 ELSE /\ obs' = Emit(Queried(obs), "round", "report_divergence",
                                     diverged(loc.checked_l1_batch, loc.root_hashes_match), 0)
                      /\ loc' = [NoLocals EXCEPT
                                   !.remote_l1_batch = loc.remote_l1_batch,
                                   !.remote_miniblock = loc.remote_miniblock,
                                   !.diverged_l1_batch =
                                       diverged(loc.checked_l1_batch, loc.root_hashes_match)]
                      /\ pc' = "cc_earliest_access"
                      /\ UNCHANGED err
    /\ UNCHANGED <<storage, main_node, stop_receiver, result>>

\* check_consistency, line 267
check_consistency_earliest_access_storage ==
    /\ pc = "cc_earliest_access"
    /\ \E fails \in BOOLEAN :
         IF fails THEN Fail(Err("Storage", 0, "Sqlx"))
         ELSE /\ loc' = access_storage(loc)
              /\ pc' = "cc_earliest"
              /\ UNCHANGED err
    /\ UNCHANGED <<storage, main_node, stop_receiver, result, obs>>

\* check_consistency, lines 268-276, and the entry of binary_search_with
check_consistency_earliest ==
    /\ pc = "cc_earliest"
    /\ \E fails \in BOOLEAN :
         IF fails THEN Fail(Err("Storage", 0, "Sqlx"))
         ELSE IF get_earliest_l1_batch_number_with_metadata = NoNumber
         THEN Fail(Err("Storage", 0, "all L1 batches with metadata disappeared"))
         ELSE /\ loc' = drop([loc EXCEPT
                           !.earliest_l1_batch = get_earliest_l1_batch_number_with_metadata,
                           !.left = detect_reorg_bounds(
                                        get_earliest_l1_batch_number_with_metadata,
                                        loc.diverged_l1_batch).left,
                           !.right = detect_reorg_bounds(
                                         get_earliest_l1_batch_number_with_metadata,
                                         loc.diverged_l1_batch).right])
              /\ pc' = "bs_loop"
              /\ UNCHANGED err
    /\ UNCHANGED <<storage, main_node, stop_receiver, result, obs>>

\* binary_search_with: the loop test, the next probe, or the return of `left`
\* through detect_reorg to line 279 of check_consistency
binary_search_with ==
    /\ pc = "bs_loop"
    /\ IF loc.left + 1 < loc.right
       THEN /\ loc' = [loc EXCEPT !.caller = "probe",
                                  !.number = middle(loc.left, loc.right)]
            /\ pc' = "rhm_access"
            /\ UNCHANGED err
       ELSE Fail(reorg_detected(loc.left))
    /\ UNCHANGED <<storage, main_node, stop_receiver, result, obs>>

round_sleep_then_round ==
    /\ pc = "round_sleep"
    /\ pc' = "cc_access"
    /\ obs' = [Forget(obs) EXCEPT !.rounds_after_stop =
                                      @ + (IF stop_receiver THEN 1 ELSE 0)]
    /\ UNCHANGED <<storage, main_node, stop_receiver, loc, err, result>>

\* run_inner, line 399: the sleep after a successful round is over
round_sleep ==
    /\ pc = "round_sleep"
    /\ pc' = "inner_loop"
    /\ obs' = Forget(obs)
    /\ UNCHANGED <<storage, main_node, stop_receiver, loc, err, result>>

run_match_shutting_down ==
    /\ pc = "run_match"
    /\ IF is_transient(err)
       THEN /\ pc' = "retry_sleep"
            /\ obs' = [Forget(obs) EXCEPT !.earliest_ok = FALSE]
            /\ UNCHANGED result
       ELSE /\ pc' = "done"
            /\ obs' = Emit([Forget(obs) EXCEPT !.earliest_ok = FALSE],
                            "run", "start_shutting_down", 0, 0)
            /\ result' = err
    /\ UNCHANGED <<storage, main_node, stop_receiver, loc, err>>

\* run, lines 365-373: the match on Err(err) of run_inner
run_match ==
    /\ pc = "run_match"
    /\ IF is_transient(err)
       THEN /\ pc' = "retry_sleep"
            /\ UNCHANGED result
       ELSE /\ pc' = "done"
            /\ result' = err
    /\ obs' = [Forget(obs) EXCEPT !.earliest_ok = FALSE]
    /\ UNCHANGED <<storage, main_node, stop_receiver, loc, err>>

retry_sleep_resumes_rounds ==
    /\ pc = "retry_sleep"
    /\ pc' = "inner_loop"
    /\ err' = NoResult
    /\ UNCHANGED <<storage, main_node, stop_receiver, loc, result, obs>>

\* run, line 370: the sleep after a transient error is over
retry_sleep ==
    /\ pc = "retry_sleep"
    /\ pc' = "run_loop"
    /\ err' = NoResult
    /\ UNCHANGED <<storage, main_node, stop_receiver, loc, result, obs>>

\* ------------------------------------------------------------------------
\* The rest of the node and the main node, while the task is suspended
\* ------------------------------------------------------------------------
Running == result.kind = "None"
Suspended == Running /\ pc \notin RunningPcs

\* What the task awaits.  The store and the main node change at any time;
\* the task sees a change at its next query of what changed, so a change is
\* taken during a sleep or while that query is in progress (after the
\* connection was acquired, before the query answers): a change made at any
\* point before is seen by the same queries.
StoreBatchPcs == {"wait_batch", "rhm_local", "cc_local_batch", "cc_earliest"}
StoreMiniblockPcs == {"cc_local_miniblock", "mhm_local"}
StoreReadPcs == StoreBatchPcs \cup StoreMiniblockPcs
RpcBatchPcs == {"rhm_remote", "cc_remote_batch"}
RpcMiniblockPcs == {"mhm_remote", "cc_remote_miniblock"}
RpcPcs == RpcBatchPcs \cup RpcMiniblockPcs
AwaitsStoreBatches == Running /\ pc \in StoreBatchPcs \cup SleepPcs
AwaitsStoreMiniblocks == Running /\ pc \in StoreMiniblockPcs \cup SleepPcs
AwaitsMainNodeBatches == Running /\ pc \in RpcBatchPcs \cup SleepPcs
AwaitsMainNodeMiniblocks == Running /\ pc \in RpcMiniblockPcs \cup SleepPcs

Touched == [obs EXCEPT !.env_changed = @ \/ InRound]

\* the owner of the stop signal sends `true`
send_stop ==
    /\ Suspended
    /\ ~stop_receiver
    /\ stop_receiver' = TRUE
    /\ obs' = [obs EXCEPT !.stop_in_sleep = pc \in SleepPcs]
    /\ UNCHANGED <<storage, main_node, pc, loc, err, result>>

\* the local node computes the metadata of its next L1 batch
local_l1_batch_with_metadata ==
    /\ AwaitsStoreBatches
    /\ storage.last < MaxBatch
    /\ \E first \in 1..MaxBatch :
         storage' = IF storage.last = NoNumber
                    THEN [storage EXCEPT !.earliest = first, !.last = first]
                    ELSE [storage EXCEPT !.last = @ + 1]
    /\ obs' = Touched
    /\ UNCHANGED <<main_node, stop_receiver, pc, loc, err, result>>

\* the local node seals its next miniblock
local_miniblock_sealed ==
    /\ AwaitsStoreMiniblocks
    /\ storage.miniblock < MaxBlock
    /\ storage' = [storage EXCEPT !.miniblock = @ + 1]
    /\ obs' = Touched
    /\ UNCHANGED <<main_node, stop_receiver, pc, loc, err, result>>

\* the local node prunes its earliest L1 batch
local_l1_batch_pruned ==
    /\ AwaitsStoreBatches
    /\ storage.earliest # NoNumber
    /\ storage.earliest < storage.last
    /\ storage' = [storage EXCEPT !.earliest = @ + 1]
    /\ obs' = Touched
    /\ UNCHANGED <<main_node, stop_receiver, pc, loc, err, result>>

\* the local node loses the metadata of all its L1 batches (the case of
\* check_consistency, line 272)
local_l1_batches_disappeared ==
    /\ AwaitsStoreBatches
    /\ storage.last # NoNumber
    /\ storage' = [storage EXCEPT !.earliest = NoNumber, !.last = NoNumber]
    /\ obs' = Touched
    /\ UNCHANGED <<main_node, stop_receiver, pc, loc, err, result>>

\* the local node reverts its last miniblock (the case of
\* miniblock_hashes_match, lines 291-296)
local_miniblocks_reverted ==
    /\ AwaitsStoreMiniblocks
    /\ storage.miniblock > 1
    /\ storage' = [storage EXCEPT !.miniblock = @ - 1]
    /\ obs' = Touched
    /\ UNCHANGED <<main_node, stop_receiver, pc, loc, err, result>>

\* the main node seals its next L1 batch; its root hash comes later
main_node_l1_batch_sealed ==
    /\ AwaitsMainNodeBatches
    /\ main_node.l1_batch < MaxBatch
    /\ main_node' = [main_node EXCEPT !.l1_batch = @ + 1]
    /\ obs' = Touched
    /\ UNCHANGED <<storage, stop_receiver, pc, loc, err, result>>

\* the main node computes the root hash of its next sealed L1 batch: that of
\* the local history or, from the fork on, another one
main_node_root_hash_computed ==
    /\ AwaitsMainNodeBatches
    /\ main_node.hashed_l1_batch < main_node.l1_batch
    /\ \E same \in BOOLEAN :
         main_node' = [main_node EXCEPT
                         !.hashed_l1_batch = @ + 1,
                         !.batch_fork = IF @ = main_node.hashed_l1_batch + 1 /\ same
                                        THEN @ + 1 ELSE @]
    /\ obs' = Touched
    /\ UNCHANGED <<storage, stop_receiver, pc, loc, err, result>>

\* the main node seals its next miniblock
main_node_miniblock_sealed ==
    /\ AwaitsMainNodeMiniblocks
    /\ main_node.miniblock < MaxBlock
    /\ \E same \in BOOLEAN :
         main_node' = [main_node EXCEPT
                         !.miniblock = @ + 1,
                         !.miniblock_fork = IF @ = main_node.miniblock + 1 /\ same
                                            THEN @ + 1 ELSE @]
    /\ obs' = Touched
    /\ UNCHANGED <<storage, stop_receiver, pc, loc, err, result>>

\* the main node operator reverts the L1 batches from `first` on; what is
\* sealed at these heights afterwards differs from what was there
main_node_l1_batches_reverted ==
    /\ AwaitsMainNodeBatches
    /\ \E first \in 2..main_node.l1_batch :
         main_node' = [main_node EXCEPT !.l1_batch = first - 1,
                                        !.hashed_l1_batch = Min(@, first - 1),
                                        !.batch_fork = Min(@, first)]
    /\ obs' = Touched
    /\ UNCHANGED <<storage, stop_receiver, pc, loc, err, result>>

\* the same for miniblocks
main_node_miniblocks_reverted ==
    /\ AwaitsMainNodeMiniblocks
    /\ \E first \in 2..main_node.miniblock :
         main_node' = [main_node EXCEPT !.miniblock = first - 1,
                                        !.miniblock_fork = Min(@, first)]
    /\ obs' = Touched
    /\ UNCHANGED <<storage, stop_receiver, pc, loc, err, result>>

Detector ==
    \/ run_start
    \/ run_loop
    \/ wait_for_l1_batch_with_metadata_access_storage
    \/ wait_for_l1_batch_with_metadata
    \/ wait_sleep
    \/ root_hashes_match_access_storage
    \/ root_hashes_match_local
    \/ root_hashes_match_remote
    \/ run_inner_loop
    \/ check_consistency_access_storage
    \/ check_consistency_local_batch
    \/ check_consistency_local_miniblock
    \/ check_consistency_remote_batch
    \/ check_consistency_remote_miniblock
    \/ miniblock_hashes_match_access_storage
    \/ miniblock_hashes_match_local
    \/ miniblock_hashes_match_remote
    \/ check_consistency_earliest_access_storage
    \/ check_consistency_earliest
    \/ binary_search_with
    \/ round_sleep
    \/ run_match
    \/ retry_sleep

Next ==
    \/ run_start
    \/ run_loop
    \/ wait_for_l1_batch_with_metadata_access_storage
    \/ wait_for_l1_batch_with_metadata
    \/ wait_sleep
    \/ root_hashes_match_access_storage
    \/ root_hashes_match_local
    \/ root_hashes_match_remote
    \/ run_inner_loop
    \/ check_consistency_access_storage
    \/ check_consistency_local_batch
    \/ check_consistency_local_miniblock
    \/ check_consistency_remote_batch
    \/ check_consistency_remote_miniblock
    \/ miniblock_hashes_match_access_storage
    \/ miniblock_hashes_match_local
    \/ miniblock_hashes_match_remote
    \/ check_consistency_earliest_access_storage
    \/ check_consistency_earliest
    \/ binary_search_with
    \/ round_sleep
    \/ run_match
    \/ retry_sleep
    \/ send_stop
    \/ local_l1_batch_with_metadata
    \/ local_miniblock_sealed
    \/ local_l1_batch_pruned
    \/ local_l1_batches_disappeared
    \/ local_miniblocks_reverted
    \/ main_node_l1_batch_sealed
    \/ main_node_root_hash_computed
    \/ main_node_miniblock_sealed
    \/ main_node_l1_batches_reverted
    \/ main_node_miniblocks_reverted

Spec == Init /\ [][Next]_vars

\* every store query, RPC call and sleep of the task returns
FairSpec == Spec /\ WF_vars(Detector)

\* the task started on a main node whose history is the local one, with an
\* observer that compares successive update_correct_block calls
InitNoReorg ==
    /\ storage \in StorageStates
    /\ main_node \in {m \in MainNodeStates : /\ m.batch_fork = m.hashed_l1_batch + 1
                                              /\ m.miniblock_fork = m.miniblock + 1}
    /\ stop_receiver = FALSE
    /\ pc = "start"
    /\ loc = NoLocals
    /\ err = NoResult
    /\ result = NoResult
    /\ obs = [NoObs EXCEPT !.tracking = TRUE]

\* the steps of a run in which no tip goes back
NextNoReorg ==
    \/ Detector
    \/ send_stop
    \/ local_l1_batch_with_metadata
    \/ local_miniblock_sealed
    \/ local_l1_batch_pruned
    \/ main_node_l1_batch_sealed
    \/ main_node_root_hash_computed
    \/ main_node_miniblock_sealed

NoReorgSpec == InitNoReorg /\ [][NextNoReorg]_vars

\* ------------------------------------------------------------------------
\* Vocabulary of the properties
\* ------------------------------------------------------------------------

\* a step that ends a check_consistency round
RoundEnds == InRound /\ ~InRound'

\* an error that comes from a failed call, not from what the call returned
Faulted(e) == e.kind = "Rpc" \/ (e.kind = "Storage" /\ e.cause = "Sqlx")

\* the step fails with a failed call
FaultStep == pc' = "run_match" /\ Faulted(err')

TipsPresent == storage.last # NoNumber /\ storage.miniblock # NoNumber
CommonBatch == Min(storage.last, main_node.l1_batch)
CommonMiniblock == Min(storage.miniblock, main_node.miniblock)

RootsAgree(n) ==
    get_l1_batch_state_root(n) # NoHash /\ get_l1_batch_state_root(n) = l1_batch_root_hash(n)
RootsDiffer(n) ==
    /\ get_l1_batch_state_root(n) # NoHash
    /\ l1_batch_root_hash(n) # NoHash
    /\ get_l1_batch_state_root(n) # l1_batch_root_hash(n)
MiniblocksAgree(n) ==
    get_miniblock_header(n) # NoHash /\ get_miniblock_header(n) = miniblock_hash(n)
MiniblocksDiffer(n) ==
    /\ get_miniblock_header(n) # NoHash
    /\ miniblock_hash(n) # NoHash
    /\ get_miniblock_header(n) # miniblock_hash(n)

\* root hashes agree on earliest..k and differ on k+1..min(tips), earliest <= k < min(tips)
ReorgAfter(k) ==
    /\ TipsPresent
    /\ storage.earliest <= k
    /\ k < CommonBatch
    /\ \A b \in storage.earliest..k : RootsAgree(b)
    /\ \A b \in (k + 1)..CommonBatch : RootsDiffer(b)

\* ------------------------------------------------------------------------
\* C1: in a round during which store and main node do not change and no
\* call fails, with both local tips present and equal local and remote
\* hashes at min(local, remote) of the batch and of the miniblock heights,
\* check_consistency returns Ok and calls the event handler exactly once:
\* update_correct_block(min of the miniblock tips, min of the batch tips).
\* ------------------------------------------------------------------------
C1_AgreeingRoundReportsMinima ==
    [][(/\ RoundEnds
        /\ ~obs.env_changed
        /\ ~FaultStep
        /\ TipsPresent
        /\ RootsAgree(CommonBatch)
        /\ MiniblocksAgree(CommonMiniblock))
       => (/\ pc' = "round_sleep"
           /\ obs'.round_events =
                  <<Ev("update_correct_block", CommonMiniblock, CommonBatch)>>)]_vars

\* a round ended with progress at the main node's tips, the local node ahead
C1_Witness ==
    /\ pc = "round_sleep"
    /\ ~obs.env_changed
    /\ storage.last > main_node.l1_batch
    /\ storage.miniblock > main_node.miniblock
    /\ RootsAgree(CommonBatch)
    /\ MiniblocksAgree(CommonMiniblock)
    /\ obs.round_events =
           <<Ev("update_correct_block", main_node.miniblock, main_node.l1_batch)>>

\* ------------------------------------------------------------------------
\* C2 as stated: whenever check_consistency fails with ReorgDetected(n),
\* every batch of earliest..n has equal local and remote root hashes and
\* batch n+1 has differing root hashes or is absent on the main node while
\* present locally.
\* ------------------------------------------------------------------------
C2_Original ==
    [][(pc = "bs_loop" /\ pc' = "run_match" /\ err'.kind = "ReorgDetected")
       => (/\ \A b \in storage.earliest..err'.arg : RootsAgree(b)
           /\ \/ RootsDiffer(err'.arg + 1)
              \/ /\ get_l1_batch_state_root(err'.arg + 1) # NoHash
                 /\ l1_batch_root_hash(err'.arg + 1) = NoHash)]_vars

\* C2 as amended: whenever check_consistency fails with ReorgDetected(n),
\* with E the earliest batch read in the round and d the batch passed to
\* report_divergence: n is E or a batch at which a probe of the localizer
\* found equal root hashes or no remote root hash; every probe that found
\* differing root hashes was above n and every other probe at or below n;
\* if E < d, batch n+1 is d or a batch at which a probe found differing root
\* hashes.  If moreover store and main node did not change during the
\* round, the root hashes at E are equal and mismatches are closed upwards,
\* every batch of E..n has equal root hashes.
C2_LastCorrectBatch ==
    [][(pc = "bs_loop" /\ pc' = "run_match" /\ err'.kind = "ReorgDetected")
       => LET n == err'.arg
              E == loc.earliest_l1_batch
              probes == obs.round_probes
              At(b, verdicts) == \E i \in 1..Len(probes) :
                                    probes[i].number = b /\ probes[i].verdict \in verdicts
          IN /\ n = E \/ At(n, {"equal", "missing"})
             /\ \A i \in 1..Len(probes) :
                    IF probes[i].verdict = "differ" THEN probes[i].number > n
                    ELSE probes[i].number <= n
             /\ \E d \in 1..(MaxBatch + 1) :
                    /\ obs.round_events = <<Ev("report_divergence", d, 0)>>
                    /\ E < d => (n + 1 = d \/ At(n + 1, {"differ"}))
             /\ (~obs.env_changed /\ RootsAgree(storage.earliest))
                => \A b \in storage.earliest..n : RootsAgree(b)]_vars

\* a reorg was localized below a differing batch after at least one probe upwards
C2_Witness ==
    /\ pc = "run_match"
    /\ err.kind = "ReorgDetected"
    /\ ~obs.env_changed
    /\ RootsAgree(storage.earliest)
    /\ err.arg > storage.earliest
    /\ RootsDiffer(err.arg + 1)

\* ------------------------------------------------------------------------
\* C3: in a round during which store and main node do not change and no
\* call fails, with root hashes equal on earliest..k and differing on
\* k+1..min(local batch tip, remote batch tip), earliest <= k < that
\* minimum, check_consistency fails with ReorgDetected(k).
\* ------------------------------------------------------------------------
C3_LocalizerFindsLastAgreeing ==
    [][\A k \in 1..MaxBatch :
         (RoundEnds /\ ~obs.env_changed /\ ~FaultStep /\ ReorgAfter(k))
         => (pc' = "run_match" /\ err' = Err("ReorgDetected", k, ""))]_vars

\* a reorg two batches below the common tip was localized
C3_Witness ==
    /\ pc = "run_match"
    /\ ~obs.env_changed
    /\ \E k \in 1..MaxBatch :
         /\ ReorgAfter(k)
         /\ k + 2 <= CommonBatch
         /\ err = Err("ReorgDetected", k, "")

\* ------------------------------------------------------------------------
\* C4 as stated: with root hashes equal up to k and differing from k+1 up
\* to the batch tips, the batch passed to report_divergence is k+1.
\* ------------------------------------------------------------------------
C4_Original ==
    [][\A k \in 1..MaxBatch :
         (/\ pc = "mhm_remote" /\ pc' = "cc_earliest_access"
          /\ ~obs.env_changed
          /\ ReorgAfter(k))
         => obs'.round_events = <<Ev("report_divergence", k + 1, 0)>>]_vars

\* C4 as amended: with root hashes equal up to k and differing from k+1 up
\* to the batch tips, the batch passed to report_divergence is
\* min(local batch tip, remote batch tip), a differing batch that is k+1
\* only if that minimum is k+1.
C4_ReportsCheckedBatch ==
    [][\A k \in 1..MaxBatch :
         (/\ pc = "mhm_remote" /\ pc' = "cc_earliest_access"
          /\ ~obs.env_changed
          /\ ReorgAfter(k))
         => obs'.round_events = <<Ev("report_divergence", CommonBatch, 0)>>]_vars

\* divergence was reported above the first differing batch
C4_Witness ==
    /\ pc = "cc_earliest_access"
    /\ ~obs.env_changed
    /\ \E k \in 1..MaxBatch :
         /\ ReorgAfter(k)
         /\ k + 1 < CommonBatch
         /\ obs.round_events = <<Ev("report_divergence", CommonBatch, 0)>>

\* ------------------------------------------------------------------------
\* C5: in a round during which store and main node do not change and that
\* finds a mismatch, the batch passed to report_divergence is checked_batch
\* if the root hashes at checked_batch differ, and checked_batch + 1 if
\* they are equal and the miniblock hashes at checked_miniblock differ,
\* with checked_batch = min(local batch tip, remote batch tip).
\* ------------------------------------------------------------------------
C5_DivergedBatchOffset ==
    [][(pc = "mhm_remote" /\ pc' = "cc_earliest_access" /\ ~obs.env_changed)
       => (/\ RootsDiffer(CommonBatch)
              => obs'.round_events = <<Ev("report_divergence", CommonBatch, 0)>>
           /\ (RootsAgree(CommonBatch) /\ MiniblocksDiffer(CommonMiniblock))
              => obs'.round_events = <<Ev("report_divergence", CommonBatch + 1, 0)>>
           /\ RootsDiffer(CommonBatch) \/ MiniblocksDiffer(CommonMiniblock))]_vars

\* divergence was reported one past the checked batch: equal roots, differing miniblocks
C5_Witness ==
    /\ pc = "cc_earliest_access"
    /\ ~obs.env_changed
    /\ RootsAgree(CommonBatch)
    /\ MiniblocksDiffer(CommonMiniblock)
    /\ obs.round_events = <<Ev("report_divergence", CommonBatch + 1, 0)>>

\* ------------------------------------------------------------------------
\* C6: run returns an error exactly when run_inner failed with an error
\* that is not transient, and then it returns that error and does nothing
\* more; after a transient error (an RPC transport error, an RPC timeout or
\* NoRemoteL1Batch) it does not return but sleeps and retries.
\* ------------------------------------------------------------------------
C6_OnlyTerminalErrorsEscape ==
    [][/\ pc = "run_match"
          => IF \/ err.kind = "NoRemoteL1Batch"
                \/ (err.kind = "Rpc" /\ err.cause \in {"Transport", "RequestTimeout"})
             THEN pc' = "retry_sleep" /\ result' = NoResult
             ELSE /\ err.kind \in {"Rpc", "EarliestHashMismatch", "EarliestL1BatchTruncated",
                                   "ReorgDetected", "Storage"}
                  /\ pc' = "done"
                  /\ result' = err
       /\ (result.kind = "None" /\ result'.kind \notin {"None", "Ok"})
          => (pc = "run_match" /\ result' = err)
       /\ (pc = "retry_sleep" /\ pc' # pc) => (pc' = "run_loop" /\ result' = NoResult)
       /\ pc = "done" => (pc' = "done" /\ result' = result /\ obs' = obs)]_vars

\* the task sleeps after an RPC timeout in a round
C6_Witness ==
    /\ pc = "retry_sleep"
    /\ err.kind = "Rpc"
    /\ err.cause = "RequestTimeout"
    /\ obs.entry_round
    /\ result = NoResult

\* ------------------------------------------------------------------------
\* C7: when the check of the earliest local batch E in run_inner finds
\* differing local and remote root hashes, run returns
\* EarliestHashMismatch(E); when it finds no root hash on the main node, run
\* returns EarliestL1BatchTruncated(E) without a retry; no round was
\* started in that entry of run_inner and the entry called neither
\* update_correct_block nor report_divergence.
\* ------------------------------------------------------------------------
C7_EarliestBatchCheck ==
    [][/\ (pc = "rhm_remote" /\ loc.caller = "earliest" /\ pc' # pc
           /\ ~(pc' = "run_match" /\ err'.kind = "Rpc"))
          => CASE l1_batch_root_hash(loc.earliest_l1_batch) = NoHash ->
                    /\ pc' = "run_match"
                    /\ err' = Err("EarliestL1BatchTruncated", loc.earliest_l1_batch, "")
                    /\ obs' = obs
               [] l1_batch_root_hash(loc.earliest_l1_batch) \notin {NoHash, loc.local_hash} ->
                    /\ pc' = "run_match"
                    /\ err' = Err("EarliestHashMismatch", loc.earliest_l1_batch, "")
                    /\ obs' = obs
               [] OTHER -> pc' = "inner_loop"
       /\ (pc = "run_match"
           /\ err.kind \in {"EarliestHashMismatch", "EarliestL1BatchTruncated"})
          => /\ pc' = "done"
             /\ result' = err
             /\ ~obs.entry_round
             /\ obs.stray_events = 0
             /\ obs.round_events = <<>>
             /\ obs' = obs]_vars

\* run returned EarliestL1BatchTruncated for an earliest batch above the main node's tip
C7_Witness ==
    /\ pc = "done"
    /\ result.kind = "EarliestL1BatchTruncated"
    /\ result.arg = storage.earliest
    /\ result.arg > main_node.l1_batch
    /\ ~obs.entry_round

\* ------------------------------------------------------------------------
\* C8: initialize is the first call of the event handler and is made once;
\* start_shutting_down is made once, as the last call, when run returns Ok
\* and is not made when run returns an error or has not returned; run
\* returns Ok only with the stop signal set.
\* ------------------------------------------------------------------------
C8_EventLifecycle ==
    /\ obs.n_initialize = (IF pc = "start" THEN 0 ELSE 1)
    /\ obs.early_events = 0
    /\ obs.late_events = 0
    /\ obs.n_shutdown = (IF result.kind = "Ok" THEN 1 ELSE 0)
    /\ result.kind = "Ok" => stop_receiver

\* run returned Ok after at least one round
C8_Witness ==
    /\ pc = "done"
    /\ result.kind = "Ok"
    /\ obs.entry_round
    /\ obs.n_initialize = 1
    /\ obs.n_shutdown = 1

\* ------------------------------------------------------------------------
\* C9: once the stop signal was set while the task slept (after a round,
\* after a transient error or waiting for the first batch), the task is
\* never again at a main node query, at the earliest batch check or in a
\* round, and run returns nothing but Ok.
\* ------------------------------------------------------------------------
C9_StopInSleepEndsRun ==
    obs.stop_in_sleep
    => /\ pc \in SleepPcs \cup {"wait_access", "wait_batch", "inner_loop", "run_loop", "done"}
       /\ result.kind \in {"None", "Ok"}
       /\ pc = "done" => result.kind = "Ok"
       /\ loc = NoLocals
       /\ stop_receiver

\* run returned Ok after a stop signal that came during a sleep after a round
C9_Witness ==
    /\ obs.stop_in_sleep
    /\ obs.entry_round
    /\ pc = "done"
    /\ result.kind = "Ok"

\* ------------------------------------------------------------------------
\* C10: if every store query, RPC call and sleep returns, then once the
\* stop signal is set run eventually returns, and at most one round starts
\* after the signal was set.
\* ------------------------------------------------------------------------
C10_StopTerminates ==
    /\ stop_receiver ~> (pc = "done")
    /\ [](obs.rounds_after_stop <= 1)

\* run returned Ok after a stop signal that came while the task was in a round
C10_Witness ==
    /\ stop_receiver
    /\ ~obs.stop_in_sleep
    /\ obs.entry_round
    /\ pc = "done"
    /\ result.kind = "Ok"

\* ------------------------------------------------------------------------
\* C11: let the store hold a batch with metadata and a sealed miniblock,
\* the main node's history be the local one (equal hashes at every height)
\* and have the root hash of the earliest local batch, no store read fail or miss its
\* row, main node calls fail only with a transport error or a timeout, from
\* some point on no main node call fail or miss a root hash, and the stop
\* signal stay unset.  If every store query, RPC call and sleep returns,
\* then run never returns and a round ends with update_correct_block.
\* ------------------------------------------------------------------------
ChainsAgree ==
    /\ main_node.batch_fork > main_node.hashed_l1_batch
    /\ main_node.miniblock_fork > main_node.miniblock
    /\ TipsPresent
    /\ storage.earliest <= main_node.hashed_l1_batch

OnlyTransientRpcFaults ==
    ~(pc = "run_match" /\ (err.kind = "Storage" \/ (err.kind = "Rpc" /\ err.cause = "Other")))

UpdateEmitted ==
    /\ pc = "round_sleep"
    /\ Len(obs.round_events) = 1
    /\ obs.round_events[1].kind = "update_correct_block"

C11_TransientThenProgress ==
    ([]ChainsAgree /\ []OnlyTransientRpcFaults /\ []~stop_receiver
     /\ <>[]~(pc = "run_match" /\ err.kind \in {"Rpc", "NoRemoteL1Batch"}))
    => ([](result = NoResult) /\ <>UpdateEmitted)

\* the task sleeps after a transport error in a round over agreeing chains
C11_Witness ==
    /\ pc = "retry_sleep"
    /\ err = Err("Rpc", 0, "Transport")
    /\ obs.entry_round
    /\ ChainsAgree
    /\ ~stop_receiver
    /\ result = NoResult

\* ------------------------------------------------------------------------
\* C12: when the read of the last L1 batch with metadata or the read of the
\* sealed miniblock number of a round finds nothing, check_consistency
\* returns Ok at once: the round has called neither update_correct_block
\* nor report_divergence and has made no call of the main node.
\* ------------------------------------------------------------------------
C12_EmptyStoreRound ==
    [][((\/ pc = "cc_local_batch" /\ storage.last = NoNumber
         \/ pc = "cc_local_miniblock" /\ storage.miniblock = NoNumber)
        /\ pc' # pc
        /\ ~FaultStep)
       => (/\ pc' = "round_sleep"
           /\ err' = err
           /\ obs'.round_events = <<>>
           /\ ~obs'.round_queried)]_vars

\* a round over a store without batch metadata returned Ok
C12_Witness ==
    /\ pc = "round_sleep"
    /\ obs.entry_round
    /\ ~obs.env_changed
    /\ storage.last = NoNumber
    /\ storage.miniblock # NoNumber
    /\ obs.round_events = <<>>
    /\ ~obs.round_queried

\* ------------------------------------------------------------------------
\* C13: every root hash the task requests from the main node within a round
\* (at checked_l1_batch and at each probe of the localizer) is for a batch
\* between 1 and the sealed L1 batch number the main node returned in that
\* round, and the miniblock hash it requests is for a miniblock between 1
\* and the sealed miniblock number the main node returned in that round.
\* ------------------------------------------------------------------------
C13_RequestsWithinReportedTips ==
    /\ (pc = "rhm_remote" /\ loc.caller \in {"checked", "probe"})
       => (1 <= loc.number /\ loc.number <= loc.remote_l1_batch)
    /\ pc = "mhm_remote"
       => (1 <= loc.number /\ loc.number <= loc.remote_miniblock)

\* a probe is about to request a root hash at the reported tip of a main
\* node that is behind the local node
C13_Witness ==
    /\ pc = "rhm_remote"
    /\ loc.caller = "probe"
    /\ loc.number = loc.remote_l1_batch
    /\ loc.remote_l1_batch < storage.last

\* ------------------------------------------------------------------------
\* C14: a round calls the event handler at most once.  When it reads the
\* earliest batch for the localizer, and at every probe of the localizer, it
\* has called report_divergence(diverged_l1_batch) exactly once and nothing
\* else; a round that has called report_divergence is on its way to the
\* localizer or has failed: it does not return Ok and does not call
\* update_correct_block.
\* ------------------------------------------------------------------------
DivergenceReported ==
    /\ Len(obs.round_events) = 1
    /\ obs.round_events[1].kind = "report_divergence"

C14_ReportOncePerDivergence ==
    /\ Len(obs.round_events) <= 1
    /\ (pc \in {"cc_earliest_access", "cc_earliest", "bs_loop"}
        \/ (pc \in RhmPcs /\ loc.caller = "probe"))
       => obs.round_events = <<Ev("report_divergence", loc.diverged_l1_batch, 0)>>
    /\ pc \in {"cc_earliest_access", "cc_earliest"} => obs.round_probes = <<>>
    /\ obs.round_probes # <<>> => DivergenceReported
    /\ DivergenceReported
       => /\ pc \in {"cc_earliest_access", "cc_earliest", "bs_loop", "run_match"} \cup RhmPcs
          /\ pc \in RhmPcs => loc.caller = "probe"
          /\ pc = "run_match" => err.kind # "None"
    /\ (pc = "run_match" /\ err.kind = "ReorgDetected") => DivergenceReported

\* a round failed with ReorgDetected after one report and two probes
C14_Witness ==
    /\ pc = "run_match"
    /\ err.kind = "ReorgDetected"
    /\ Len(obs.round_probes) = 2
    /\ DivergenceReported

\* ------------------------------------------------------------------------
\* C15: after an error of run_inner the earliest batch check is pending
\* again; the sleep after a transient error ends at the loop test of run;
\* an entry of run_inner reads the then earliest local batch with metadata;
\* the check passes only in the step in which the main node returns, for
\* that batch, the root hash read locally; and the task is in a round only
\* while the check of the current entry has passed.
\* ------------------------------------------------------------------------
C15_WarmupBeforeRounds ==
    [][/\ (pc = "run_match" /\ pc' # pc) => ~obs'.earliest_ok
       /\ (pc = "retry_sleep" /\ pc' # pc) => (pc' = "run_loop" /\ ~obs'.earliest_ok)
       /\ (pc = "wait_batch" /\ pc' = "rhm_access")
          => (/\ storage.earliest # NoNumber
              /\ loc'.earliest_l1_batch = storage.earliest
              /\ loc'.number = storage.earliest
              /\ loc'.caller = "earliest")
       /\ (~obs.earliest_ok /\ obs'.earliest_ok)
          => (/\ pc = "rhm_remote" /\ loc.caller = "earliest"
              /\ loc.number = loc.earliest_l1_batch
              /\ loc.local_hash # NoHash
              /\ l1_batch_root_hash(loc.number) = loc.local_hash)
       /\ InRound' => obs'.earliest_ok]_vars

\* the task sleeps after a transient error in a round: the check is pending
C15_Witness ==
    /\ pc = "retry_sleep"
    /\ is_transient(err)
    /\ obs.entry_round
    /\ ~obs.earliest_ok
    /\ storage.earliest > 1

\* ------------------------------------------------------------------------
\* C16: a probe of the localizer at batch m whose local read fails ends the
\* round with that Storage error; one whose main node call fails ends it
\* with that Rpc error; otherwise, if the main node has no root hash for m
\* or has the local one, the search goes on with left = m, and if it has
\* another one, with right = m.  A round that has called report_divergence
\* ends with Rpc, Storage or ReorgDetected, never with NoRemoteL1Batch.
\* ------------------------------------------------------------------------
C16_ProbeOutcomes ==
    [][/\ (pc = "rhm_local" /\ loc.caller = "probe" /\ pc' # pc)
          => \/ pc' = "rhm_remote" /\ loc'.local_hash = get_l1_batch_state_root(loc.number)
             \/ /\ pc' = "run_match" /\ err'.kind = "Storage"
                /\ Len(obs'.round_probes) = Len(obs.round_probes) + 1
       /\ (pc = "rhm_remote" /\ loc.caller = "probe" /\ pc' # pc)
          => /\ Len(obs'.round_probes) = Len(obs.round_probes) + 1
             /\ IF pc' = "run_match"
                THEN err'.kind = "Rpc"
                ELSE /\ pc' = "bs_loop"
                     /\ IF l1_batch_root_hash(loc.number) \in {NoHash, loc.local_hash}
                        THEN loc'.left = loc.number /\ loc'.right = loc.right
                        ELSE loc'.left = loc.left /\ loc'.right = loc.number
       /\ (DivergenceReported /\ pc' = "run_match" /\ pc # pc')
          => err'.kind \in {"Rpc", "Storage", "ReorgDetected"}]_vars

\* the localizer went on upwards from a batch the main node has no root hash for
C16_Witness ==
    /\ pc = "bs_loop"
    /\ obs.round_probes # <<>>
    /\ obs.round_probes[Len(obs.round_probes)].verdict = "missing"
    /\ loc.left = obs.round_probes[Len(obs.round_probes)].number
    /\ l1_batch_root_hash(loc.left) = NoHash

\* ------------------------------------------------------------------------
\* C17: in the two comparisons of a round, when no call fails: if the main
\* node has no root hash for checked_l1_batch the round fails with the
\* transient NoRemoteL1Batch and has called no event; if it has no hash for
\* checked_miniblock and the root hashes matched, the round returns Ok
\* after update_correct_block(checked_miniblock, checked_l1_batch); if the
\* store has no root hash for checked_l1_batch or no header for
\* checked_miniblock the round fails with Storage and has called no event.
\* ------------------------------------------------------------------------
C17_MissingHashAsymmetry ==
    [][/\ (/\ pc = "rhm_remote" /\ loc.caller = "checked" /\ pc' # pc
           /\ ~FaultStep
           /\ l1_batch_root_hash(loc.number) = NoHash)
          => (/\ pc' = "run_match"
              /\ err' = Err("NoRemoteL1Batch", 0, "")
              /\ is_transient(err')
              /\ obs'.round_events = <<>>)
       /\ (/\ pc = "mhm_remote" /\ pc' # pc
           /\ ~FaultStep
           /\ miniblock_hash(loc.number) = NoHash
           /\ loc.root_hashes_match)
          => (/\ pc' = "round_sleep"
              /\ loc.number = loc.checked_miniblock
              /\ obs'.round_events = <<Ev("update_correct_block",
                                          loc.checked_miniblock, loc.checked_l1_batch)>>)
       /\ (/\ pc = "rhm_local" /\ loc.caller = "checked" /\ pc' # pc
           /\ get_l1_batch_state_root(loc.number) = NoHash)
          => (pc' = "run_match" /\ err'.kind = "Storage" /\ obs'.round_events = <<>>)
       /\ (/\ pc = "mhm_local" /\ pc' # pc
           /\ get_miniblock_header(loc.number) = NoHash)
          => (pc' = "run_match" /\ err'.kind = "Storage"
              /\ obs'.round_events = <<>>)]_vars

\* a round returned Ok with progress at a miniblock the main node has no hash for
C17_Witness ==
    /\ pc = "round_sleep"
    /\ Len(obs.round_events) = 1
    /\ obs.round_events[1].kind = "update_correct_block"
    /\ miniblock_hash(obs.round_events[1].a) = NoHash
    /\ get_miniblock_header(obs.round_events[1].a) # NoHash

\* ------------------------------------------------------------------------
\* C18 as stated: in a run in which no tip of the store or of the main node
\* goes back, and until the task reports a divergence, each
\* update_correct_block call
\* carries a miniblock and an L1 batch greater than those of the previous
\* update_correct_block call.
\* ------------------------------------------------------------------------
C18_Original ==
    [][(/\ obs.tracking /\ obs'.tracking
        /\ pc = "mhm_remote" /\ pc' = "round_sleep"
        /\ obs.progress.l1_batch # 0)
       => (/\ obs'.progress.miniblock > obs.progress.miniblock
           /\ obs'.progress.l1_batch > obs.progress.l1_batch)]_vars

\* C18 as amended: under the same conditions each update_correct_block call
\* carries a miniblock and an L1 batch not less than those of the previous
\* update_correct_block call; the same values recur when the minima of the
\* tips have not moved between two rounds.
C18_ProgressNeverGoesBack ==
    [][(/\ obs.tracking /\ obs'.tracking
        /\ pc = "mhm_remote" /\ pc' = "round_sleep"
        /\ obs.progress.l1_batch # 0)
       => (/\ obs'.round_events = <<Ev("update_correct_block", obs'.progress.miniblock,
                                       obs'.progress.l1_batch)>>
           /\ obs'.progress.miniblock >= obs.progress.miniblock
           /\ obs'.progress.l1_batch >= obs.progress.l1_batch)]_vars

\* a round reported progress one miniblock and one L1 batch above the previous one
C18_Witness ==
    /\ pc = "round_sleep"
    /\ obs.tracking
    /\ obs.round_advance = <<[miniblock |-> 1, l1_batch |-> 1]>>

\* ------------------------------------------------------------------------
\* C19: while a main-node RPC or the sleep between two rounds is in
\* progress, the task holds no connection of the store's pool.
\* ------------------------------------------------------------------------
C19_NoConnectionAcrossRpcOrSleep ==
    (Running /\ pc \in RpcPcs \cup {"round_sleep"}) => ~loc.connection

\* the first RPC of a round is in progress, after the two reads of the
\* local tips over one connection
C19_Witness ==
    /\ Running
    /\ pc = "cc_remote_batch"
    /\ loc.local_l1_batch # 0
    /\ loc.local_miniblock # 0
    /\ ~loc.connection

\* ------------------------------------------------------------------------
\* C20: every ReorgDetected(n) follows a report_divergence(d) of the same
\* round with earliest <= n < d, earliest being the earliest local batch
\* with metadata read in that round: the batch to roll back to is below the
\* batch reported as diverged, also when earliest equals or exceeds d.
\* ------------------------------------------------------------------------
C20_RollbackBelowDiverged ==
    [][(pc = "bs_loop" /\ pc' = "run_match" /\ err'.kind = "ReorgDetected")
       => \E d \in 1..(MaxBatch + 1) :
              /\ obs.round_events = <<Ev("report_divergence", d, 0)>>
              /\ loc.earliest_l1_batch <= err'.arg
              /\ err'.arg < d]_vars
====
